---- MODULE Spec2Model ----
(***************************************************************************)
(* Model of the session intake (sessions/service.py, sessions/router.py),  *)
(* the per-document pipeline task (sessions/processors.py), the analysis   *)
(* sub-pipeline and its status query (document_analysis/                   *)
(* document_analysis_service.py), the rasterizer (core/utils/pdf.py) and   *)
(* the detection and payload functions (mark_service).                     *)
(*                                                                         *)
(* Every coroutine is cut at its await points: one action is "the awaited  *)
(* operation takes effect or raises, then the synchronous code up to the   *)
(* next await runs".  Operations on the database, the object storage, the  *)
(* file system and the remote services may raise; the choice is the        *)
(* environment's.                                                          *)
(***************************************************************************)
EXTENDS Integers, Sequences, FiniteSets, TLC

\* ------------------------------------------------------------------ bounds
MaxFiles == 2        \* uploads in one request
MaxCalls == 2        \* direct invocations of analyze_document and get_analysis_status
MaxRasterCalls == 2  \* calls of pdf_to_images
MaxPages == 2        \* pages of a PDF in the page-level run

VARIABLES
    request,      \* the POST /sessions request: position, inputs and locals
    sessions,     \* Session rows, id = index
    documents,    \* SessionDocument rows, id = index
    tempFiles,    \* document ids whose uploads/<session>/<doc>.pdf exists
    scheduled,    \* background.add_task calls of the request, in order
    tasks,        \* process_document_async activations, by document id
    analyses,     \* DocumentAnalysis rows, id = index
    calls,        \* analyze_document activations, by call number
    queries,      \* get_analysis_status activations, by call number
    labels,       \* one pipeline run seen page by page and box by box
    raster,       \* the working root and the calls of pdf_to_images
    safe_keys,    \* one call of _safe_graphql_key
    work          \* the working directories, and the tasks that share them

vars == <<request, sessions, documents, tempFiles, scheduled, tasks, analyses, calls,
          queries, labels, raster, safe_keys, work>>

\* ------------------------------------------------------- names and suffixes
\* File names are sequences of characters.
ToLower(c) ==
    CASE c = "P" -> "p" [] c = "D" -> "d" [] c = "F" -> "f"
      [] c = "Z" -> "z" [] c = "I" -> "i" [] OTHER -> c

\* str.lower()
Lower(s) == [k \in 1..Len(s) |-> ToLower(s[k])]

\* str.endswith(suffix)
EndsWith(s, suffix) ==
    /\ Len(s) >= Len(suffix)
    /\ SubSeq(s, Len(s) - Len(suffix) + 1, Len(s)) = suffix

DotPdf == <<".", "p", "d", "f">>
DotZip == <<".", "z", "i", "p">>

\* Path(name).name: the part after the last "/"
RECURSIVE PathName(_)
PathName(s) ==
    IF \E k \in 1..Len(s) : s[k] = "/"
    THEN PathName(Tail(s))
    ELSE s

\* ------------------------------------------------------------------ inputs
\* An upload: its filename ("" when the client sent none), and, when the
\* bytes are a ZIP archive, the entry names of the archive (namelist());
\* readable = FALSE when zipfile.ZipFile cannot open the bytes.
Upload(filename, entries, readable) ==
    [filename |-> filename, entries |-> entries, readable |-> readable]

N_a_pdf     == <<"a", ".", "p", "d", "f">>
N_B_PDF     == <<"B", ".", "P", "D", "F">>
N_dir_c_Pdf == <<"d", "/", "c", ".", "P", "d", "f">>
N_n_txt     == <<"n", ".", "t", "x", "t">>
N_pdf       == <<"p", "d", "f">>
N_a_pdf_txt == <<"a", ".", "p", "d", "f", ".", "t", "x", "t">>
N_z_zip     == <<"z", ".", "z", "i", "p">>
N_Z_ZIP     == <<"Z", ".", "Z", "I", "P">>
NoName      == <<>>

DirectNames == {N_a_pdf, N_B_PDF, N_n_txt, N_pdf, N_a_pdf_txt, NoName}
ZipNames    == {N_z_zip, N_Z_ZIP}
ZipContents ==
    { <<>>,
      <<N_n_txt>>,
      <<N_dir_c_Pdf, N_n_txt>>,
      <<N_a_pdf, N_B_PDF, N_dir_c_Pdf, N_n_txt>> }

IntakeUploads ==
    {Upload(n, <<>>, TRUE) : n \in DirectNames}
      \cup {Upload(z, c, TRUE) : z \in ZipNames, c \in ZipContents}
      \cup {Upload(z, <<>>, FALSE) : z \in ZipNames}

PipelineUploads ==
    { Upload(N_a_pdf, <<>>, TRUE),
      Upload(N_n_txt, <<>>, TRUE),
      Upload(N_z_zip, <<N_dir_c_Pdf, N_n_txt>>, TRUE) }

UploadLists(U) == UNION {[1..n -> U] : n \in 0..MaxFiles}

\* --------------------------------------------------------------- the rows
NewSession(n) == [documentsCount |-> n, status |-> "PROCESSING"]

NewDocument(session_id, original_name) ==
    [sessionId |-> session_id, originalName |-> original_name,
     status |-> "PENDING", labelsPosition |-> "null"]

DocumentIds == 1..Len(documents)

\* db.sessiondocument.count(where=...)
CountDocuments(session_id) ==
    Cardinality({d \in DocumentIds : documents[d].sessionId = session_id})

CountSuccessful(session_id) ==
    Cardinality({d \in DocumentIds :
                    /\ documents[d].sessionId = session_id
                    /\ documents[d].status = "SUCCESSFUL"})

\* ------------------------------------------------------------------ intake
IsZip(f) == f.filename # <<>> /\ EndsWith(Lower(f.filename), DotZip)

IsPdfCaseSensitive(f) == f.filename # <<>> /\ EndsWith(f.filename, DotPdf)
IsPdf(f) == f.filename # <<>> /\ EndsWith(Lower(f.filename), DotPdf)

RECURSIVE _collect_pdfs_from_zip(_)
_collect_pdfs_from_zip(names) ==
    IF names = <<>> THEN <<>>
    ELSE (IF EndsWith(Lower(Head(names)), DotPdf)
          THEN <<PathName(Head(names))>> ELSE <<>>)
         \o _collect_pdfs_from_zip(Tail(names))

\* the classification loop of create_session_with_documents
RECURSIVE CollectBlobs(_)
CollectBlobs(files) ==
    IF files = <<>> THEN <<>>
    ELSE LET f == Head(files) IN
         (IF IsZip(f) THEN _collect_pdfs_from_zip(f.entries)
          ELSE IF IsPdf(f) THEN <<PathName(f.filename)>>
          ELSE <<>>)
         \o CollectBlobs(Tail(files))

\* zipfile.ZipFile raises on bytes that are no archive
ZipRaises(files) == \E k \in 1..Len(files) : IsZip(files[k]) /\ ~files[k].readable

NewRequest(files) ==
    [pc |-> "received", files |-> files, pdf_blobs |-> <<>>, i |-> 0,
     session_id |-> 0, response |-> 0]

\* service.py 38: if not pdf_blobs
NoPdfsMutant(blobs) == FALSE
NoPdfs(blobs) == blobs = <<>>

\* service.py 23-39: validation, classification, archive expansion
Classify ==
    /\ request.pc = "received"
    /\ IF request.files = <<>>
       THEN request' = [request EXCEPT !.pc = "rejected", !.response = 400]
       ELSE IF ZipRaises(request.files)
       THEN request' = [request EXCEPT !.pc = "error", !.response = 500]
       ELSE LET blobs == CollectBlobs(request.files) IN
            IF NoPdfs(blobs)
            THEN request' = [request EXCEPT !.pc = "rejected", !.response = 400]
            ELSE request' = [request EXCEPT !.pc = "create_session",
                                            !.pdf_blobs = blobs]
    /\ UNCHANGED <<safe_keys, work, queries, labels, raster, sessions, documents, tempFiles, scheduled, tasks, analyses, calls>>

\* service.py 41-47: db.session.create
CreateSession ==
    /\ request.pc = "create_session"
    /\ \E ok \in BOOLEAN :
         IF ok
         THEN /\ sessions' = Append(sessions, NewSession(Len(request.pdf_blobs)))
              /\ request' = [request EXCEPT
                               !.pc = IF request.pdf_blobs = <<>>
                                      THEN "respond" ELSE "create_document",
                               !.i = 1,
                               !.session_id = Len(sessions) + 1]
         ELSE /\ request' = [request EXCEPT !.pc = "error", !.response = 500]
              /\ UNCHANGED sessions
    /\ UNCHANGED <<safe_keys, work, queries, labels, raster, documents, tempFiles, scheduled, tasks, analyses, calls>>

NewTask(session_id, document_id) ==
    [session_id |-> session_id, document_id |-> document_id, pc |-> "connect",
     doc_dir |-> FALSE, e |-> "none", analysis |-> "none",
     total_docs |-> 0, successful_docs |-> 0,
     \* history: the steps of the synchronous stretch that were carried out
     progress |-> {}]

\* service.py 66: background.add_task(process_document_async, session_id, doc.id, ...)
AddTaskSkipped(tasklist, session_id, doc_id) == tasklist
AddTask(tasklist, session_id, doc_id) == Append(tasklist, <<session_id, doc_id>>)

\* service.py 50-66: one round of the loop: db.sessiondocument.create, then
\* the temp file and background.add_task
CreateDocument ==
    /\ request.pc = "create_document"
    /\ \E outcome \in {"ok", "create_raises", "write_raises"} :
         LET doc_id == Len(documents) + 1
             row    == NewDocument(request.session_id, request.pdf_blobs[request.i])
         IN CASE outcome = "create_raises" ->
                   /\ request' = [request EXCEPT !.pc = "error", !.response = 500]
                   /\ UNCHANGED <<documents, tempFiles, scheduled>>
              [] outcome = "write_raises" ->
                   /\ documents' = Append(documents, row)
                   /\ request' = [request EXCEPT !.pc = "error", !.response = 500]
                   /\ UNCHANGED <<tempFiles, scheduled>>
              [] outcome = "ok" ->
                   /\ documents' = Append(documents, row)
                   /\ tempFiles' = tempFiles \cup {doc_id}
                   /\ scheduled' = AddTask(scheduled, request.session_id, doc_id)
                   /\ request' = [request EXCEPT
                                    !.i = @ + 1,
                                    !.pc = IF request.i = Len(request.pdf_blobs)
                                           THEN "respond" ELSE "create_document"]
    /\ UNCHANGED <<safe_keys, work, queries, labels, raster, sessions, tasks, analyses, calls>>

\* router.py 186-190: the session is read back and returned; the background
\* tasks added to the request run after the response
Respond ==
    /\ request.pc = "respond"
    /\ \E ok \in BOOLEAN :
         IF ok
         THEN /\ request' = [request EXCEPT !.pc = "responded", !.response = 200]
              /\ tasks' = [k \in 1..Len(scheduled) |->
                             NewTask(scheduled[k][1], scheduled[k][2])]
         ELSE /\ request' = [request EXCEPT !.pc = "error", !.response = 500]
              /\ UNCHANGED tasks
    /\ UNCHANGED <<safe_keys, work, queries, labels, raster, sessions, documents, tempFiles, scheduled, analyses, calls>>

\* ------------------------------------------------- process_document_async
\* The fallible steps of the synchronous stretch between db.connect() and
\* db.sessiondocument.find_unique, in program order (processors.py 41-104).
\* s3.upload_file is called without await, with a local path and a key, and
\* its value is used as the URL: the interface of S3Client.upload_file
\* (core/s3/client.py 51-67), which returns the URL or raises.
BlockOrderDetectionFirst ==
    << "processor", "pdf_to_images", "inference", "upload_original",
       "upload_pages", "analysis", "upload_labeled", "build_labeled_pdf",
       "upload_labeled_pdf" >>
BlockOrder ==
    << "processor",           \* 42  DigitalInspectorProcessor(...)
       "pdf_to_images",       \* 45
       "upload_original",     \* 51
       "upload_pages",        \* 55-58
       "analysis",            \* 61-65
       "inference",           \* 68
       "upload_labeled",      \* 96-100
       "build_labeled_pdf",   \* 102
       "upload_labeled_pdf"   \* 104
    >>

StepIndex(step) == CHOOSE k \in 1..Len(BlockOrder) : BlockOrder[k] = step

\* the steps carried out when the stretch stops at step failed ("none": at
\* no step)
Completed(failed) ==
    IF failed = "none" THEN {BlockOrder[k] : k \in 1..Len(BlockOrder)}
    ELSE {BlockOrder[k] : k \in 1..(StepIndex(failed) - 1)}

\* the s3.upload_file calls of lines 51, 57, 99 and 104
UploadSteps == {"upload_original", "upload_pages", "upload_labeled", "upload_labeled_pdf"}

FatalSteps == {BlockOrder[k] : k \in 1..Len(BlockOrder)} \ {"analysis"}

\* service signature (document_analysis_service.py 21) against the call of
\* processors.py 62, which passes the document id alone
AnalyzeDocumentParams == <<"session_id", "document_id">>
PipelineAnalyzeArgsBoth(session_id, document_id) == <<session_id, document_id>>
PipelineAnalyzeArgs(session_id, document_id) == <<document_id>>

\* the outcome of the call expression: a call that does not bind every
\* parameter raises TypeError before the coroutine body runs
AnalysisCall(args) ==
    IF Len(args) # Len(AnalyzeDocumentParams) THEN "TypeError" ELSE "called"

\* processors.py 61-65: try/except Exception around the analysis call;
\* TRUE when the exception reaches the task's top-level handler
AnalysisFatalUncaught(outcome) == outcome # "called"
AnalysisFatal(outcome) == FALSE

\* doc_dir is assigned on line 46, after pdf_to_images returned
DocDirBound(failed) == failed \notin {"processor", "pdf_to_images"}

\* _safe_remove(doc_dir); _safe_remove(file_path) on the success path (150-151)
CleanupAfterSuccess(document_id) == tempFiles \ {document_id}

\* the same two calls in the handler (175-179): with doc_dir unbound the first
\* raises NameError, which the surrounding try swallows, skipping the second
CleanupAfterFailure(t) ==
    IF t.doc_dir THEN tempFiles \ {t.document_id} ELSE tempFiles

\* where={"id": document_id} of the two updates (138, 167)
WrittenRowShared(t) == 1
WrittenRow(t) == t.document_id

\* Locals that are no longer read are reset, so that states differing only
\* in dead locals coincide.
ToHandlerUploadsIgnored(t, step) ==
    IF step \in UploadSteps
    THEN [t EXCEPT !.pc = "find_unique", !.e = step]
    ELSE [t EXCEPT !.pc = "mark_failed", !.e = step,
                   !.total_docs = 0, !.successful_docs = 0]
ToHandler(t, step) ==
    [t EXCEPT !.pc = "mark_failed", !.e = step,
              !.total_docs = 0, !.successful_docs = 0]

ToFinally(t) ==
    [NewTask(t.session_id, t.document_id) EXCEPT !.pc = "disconnect"]

\* the task is over: it returned (pc = "done") or raised to its caller
Ended(t, pc) == [NewTask(t.session_id, t.document_id) EXCEPT !.pc = pc]

\* 29-104: db.connect() outside the try, then the synchronous stretch
Connect(k) ==
    /\ tasks[k].pc = "connect"
    /\ \E ok \in BOOLEAN :
         IF ~ok
         THEN tasks' = [tasks EXCEPT ![k] = Ended(@, "raised")]
         ELSE \E failed \in FatalSteps \cup {"none"} :
                LET t == tasks[k]
                    reached == failed = "none" \/ StepIndex(failed) > StepIndex("analysis")
                    outcome == IF reached
                               THEN AnalysisCall(PipelineAnalyzeArgs(t.session_id, t.document_id))
                               ELSE "none"
                    t1 == [t EXCEPT !.analysis = outcome,
                                    !.progress = Completed(failed)]
                IN tasks' = [tasks EXCEPT ![k] =
                       IF reached /\ outcome # "none" /\ AnalysisFatal(outcome)
                       THEN [ToHandler(t1, "analysis") EXCEPT
                                !.doc_dir = TRUE,
                                !.progress = Completed("analysis")]
                       ELSE IF failed # "none"
                       THEN [ToHandler(t1, failed) EXCEPT !.doc_dir = DocDirBound(failed)]
                       ELSE [t1 EXCEPT !.pc = "find_unique", !.doc_dir = TRUE]]
    /\ UNCHANGED <<safe_keys, work, queries, labels, raster, request, sessions, documents, tempFiles, scheduled, analyses, calls>>

\* 107-134: the document is read back for its original name, the payload built
FindUnique(k) ==
    /\ tasks[k].pc = "find_unique"
    /\ \E ok \in BOOLEAN :
         tasks' = [tasks EXCEPT ![k] =
                     IF ok THEN [@ EXCEPT !.pc = "persist"]
                     ELSE ToHandler(@, "find_unique")]
    /\ UNCHANGED <<safe_keys, work, queries, labels, raster, request, sessions, documents, tempFiles, scheduled, analyses, calls>>

\* 137-151: the SUCCESSFUL write, then local cleanup
Persist(k) ==
    /\ tasks[k].pc = "persist"
    /\ \E ok \in BOOLEAN :
         IF ok
         THEN /\ documents' = [documents EXCEPT ![WrittenRow(tasks[k])] =
                                 [@ EXCEPT !.status = "SUCCESSFUL",
                                           !.labelsPosition = "payload"]]
              /\ tempFiles' = CleanupAfterSuccess(tasks[k].document_id)
              /\ tasks' = [tasks EXCEPT ![k] = [@ EXCEPT !.pc = "count_total"]]
         ELSE /\ tasks' = [tasks EXCEPT ![k] = ToHandler(@, "persist")]
              /\ UNCHANGED <<documents, tempFiles>>
    /\ UNCHANGED <<safe_keys, work, queries, labels, raster, request, sessions, scheduled, analyses, calls>>

\* 154: total_docs
CountTotal(k) ==
    /\ tasks[k].pc = "count_total"
    /\ \E ok \in BOOLEAN :
         tasks' = [tasks EXCEPT ![k] =
                     IF ok
                     THEN [tasks[k] EXCEPT
                             !.pc = "count_successful",
                             !.total_docs = CountDocuments(tasks[k].session_id)]
                     ELSE ToHandler(tasks[k], "count_total")]
    /\ UNCHANGED <<safe_keys, work, queries, labels, raster, request, sessions, documents, tempFiles, scheduled, analyses, calls>>

\* 158: if total_docs > 0 and successful_docs == total_docs
AllSuccessful(total_docs, successful_docs) ==
    total_docs > 0 /\ successful_docs = total_docs

\* 155-158: successful_docs and the test
CountSuccessfulDocs(k) ==
    /\ tasks[k].pc = "count_successful"
    /\ \E ok \in BOOLEAN :
         tasks' = [tasks EXCEPT ![k] =
                     IF ok
                     THEN LET n == CountSuccessful(tasks[k].session_id) IN
                          IF AllSuccessful(tasks[k].total_docs, n)
                          THEN [tasks[k] EXCEPT !.successful_docs = n,
                                                !.pc = "update_session"]
                          ELSE ToFinally(tasks[k])
                     ELSE ToHandler(tasks[k], "count_successful")]
    /\ UNCHANGED <<safe_keys, work, queries, labels, raster, request, sessions, documents, tempFiles, scheduled, analyses, calls>>

\* 159-162: db.session.update(status = SUCCESS)
UpdateSession(k) ==
    /\ tasks[k].pc = "update_session"
    /\ \E ok \in BOOLEAN :
         IF ok
         THEN /\ sessions' = [sessions EXCEPT ![tasks[k].session_id] =
                                [@ EXCEPT !.status = "SUCCESS"]]
              /\ tasks' = [tasks EXCEPT ![k] = ToFinally(@)]
         ELSE /\ tasks' = [tasks EXCEPT ![k] = ToHandler(@, "update_session")]
              /\ UNCHANGED sessions
    /\ UNCHANGED <<safe_keys, work, queries, labels, raster, request, documents, tempFiles, scheduled, analyses, calls>>

\* 163-179: the handler: the FAILED write (its own failure swallowed), cleanup
MarkFailed(k) ==
    /\ tasks[k].pc = "mark_failed"
    /\ \E ok \in BOOLEAN :
         documents' = IF ok
                      THEN [documents EXCEPT ![WrittenRow(tasks[k])] =
                              [@ EXCEPT !.status = "FAILED"]]
                      ELSE documents
    /\ tempFiles' = CleanupAfterFailure(tasks[k])
    /\ tasks' = [tasks EXCEPT ![k] = ToFinally(@)]
    /\ UNCHANGED <<safe_keys, work, queries, labels, raster, request, sessions, scheduled, analyses, calls>>

\* 180-181: finally: await db.disconnect()
Disconnect(k) ==
    /\ tasks[k].pc = "disconnect"
    /\ \E ok \in BOOLEAN :
         tasks' = [tasks EXCEPT ![k] =
                     IF ok THEN Ended(@, "done") ELSE Ended(@, "raised")]
    /\ UNCHANGED <<safe_keys, work, queries, labels, raster, request, sessions, documents, tempFiles, scheduled, analyses, calls>>

\* --------------------------------------------------------- analyze_document
\* Messages are sequences of tokens; str(e) of a wrapped exception is the
\* prefix followed by the tokens of the original message.
ErrMsgs == {<<"timeout">>, <<"connection refused">>}

\* message contains part as a contiguous run
Contains(message, part) ==
    \E i \in 0..(Len(message) - Len(part)) :
        SubSeq(message, i + 1, i + Len(part)) = part

\* A document id as passed in, split at "/": a sequence of segments, each a
\* sequence of characters.  "1" is <<<<"1">>>>, "docs/01" is
\* <<<<"d","o","c","s">>, <<"0","1">>>>.
DocIdInputs ==
    { << <<"1">> >>,
      << <<"d", "o", "c", "s">>, <<"0", "1">> >>,
      << <<"x">> >> }

Digits == {"0", "1", "2", "3", "4", "5", "6", "7", "8", "9"}

DigitValue(ch) ==
    CASE ch = "0" -> 0 [] ch = "1" -> 1 [] ch = "2" -> 2 [] ch = "3" -> 3
      [] ch = "4" -> 4 [] ch = "5" -> 5 [] ch = "6" -> 6 [] ch = "7" -> 7
      [] ch = "8" -> 8 [] ch = "9" -> 9

\* .split('/')[-1]
LastSegment(document_id) == document_id[Len(document_id)]

\* int(...) raises ValueError (lines 48-51) on a segment that is no number
IdIsInvalid(document_id) ==
    LET seg == LastSegment(document_id) IN
    seg = <<>> \/ \E j \in 1..Len(seg) : seg[j] \notin Digits

RECURSIVE IntOf(_)
IntOf(seg) ==
    IF seg = <<>> THEN 0
    ELSE 10 * IntOf(SubSeq(seg, 1, Len(seg) - 1)) + DigitValue(seg[Len(seg)])

\* doc_int
DocInt(document_id) == IntOf(LastSegment(document_id))

\* str(doc_int): the decimal digits, without leading zeros
RECURSIVE StrOf(_)
StrOf(n) ==
    LET last == CHOOSE ch \in Digits : DigitValue(ch) = n % 10 IN
    IF n < 10 THEN <<last>> ELSE StrOf(n \div 10) \o <<last>>

\* the id as the caller wrote it: the segments with "/" between them
RECURSIVE Joined(_)
Joined(document_id) ==
    IF Len(document_id) = 1 THEN document_id[1]
    ELSE document_id[1] \o <<"/">> \o Joined(Tail(document_id))

\* 53-58: the row is created under the key str(doc_int)
\* the result columns of a row, which the create of lines 53-58 leaves unset
ResultFields ==
    {"fraudSentences", "mistakeWords", "documentType", "documentSummary", "documentText"}
NoResults == [f \in ResultFields |-> "null"]

NewAnalysis(doc_int) ==
    [documentId |-> StrOf(doc_int), status |-> "PROCESSING", errorLog |-> <<>>,
     results |-> NoResults]

NewCall(session_id, document_id) ==
    [pc |-> "connect", session_id |-> session_id, document_id |-> document_id,
     analysis_id |-> 0, error |-> <<>>, llm_results |-> <<>>,
     \* history: the step that raised first, its message, and the number of
     \* status updates of _update_failed_status that went through
     failed |-> "none", cause |-> <<>>, updates |-> 0]

\* the object storage read of line 66 and the two remote services: each
\* returns or raises with a message
RemoteOutcomes == {<<"ok", <<>> >>} \cup {<<"raises", m>> : m \in ErrMsgs}

\* s3_service.download_original_pdf
DownloadOutcomes == RemoteOutcomes

\* an exception leaves the try block for the handler of lines 117-124: with
\* analysis_id set the status is updated once more, then the finally clause
ToOuterHandlerSwallowed(c, message) == [c EXCEPT !.pc = "disconnect"]
ToOuterHandler(c, message) ==
    [c EXCEPT !.error = message,
              !.pc = IF c.analysis_id # 0 THEN "update_failed_outer"
                     ELSE "disconnect"]

\* the inner handlers (68-71, 79-82, 90-93): error_msg, then _update_failed_status
ToInnerHandler(c, step, prefix, m) ==
    [c EXCEPT !.error = <<prefix>> \o m, !.pc = "update_failed_inner",
              !.failed = step, !.cause = m]

\* _update_failed_status (178-191): a best-effort update that never raises
UpdateFailedStatusSkipped(rows, analysis_id, error_message, ok) == rows
UpdateFailedStatus(rows, analysis_id, error_message, ok) ==
    IF ok
    THEN [rows EXCEPT ![analysis_id] =
            [@ EXCEPT !.status = "FAILED", !.errorLog = error_message]]
    ELSE rows

\* an entry point calls analyze_document(session_id, document_id)
Invoke ==
    /\ Len(calls) + Len(queries) < MaxCalls
    /\ \E document_id \in DocIdInputs :
         calls' = Append(calls, NewCall(1, document_id))
    /\ UNCHANGED <<safe_keys, work, queries, labels, raster, request, sessions, documents, tempFiles, scheduled, tasks, analyses>>

\* 37-51: db.connect(), then the normalisation of the id
A_Connect(c) ==
    /\ calls[c].pc = "connect"
    /\ \E ok \in BOOLEAN, m \in ErrMsgs :
         calls' = [calls EXCEPT ![c] =
                     IF ~ok THEN ToOuterHandler(@, m)
                     ELSE IF IdIsInvalid(@.document_id)
                     THEN ToOuterHandler(@, <<"Invalid document id: ">>)
                     ELSE [@ EXCEPT !.pc = "create"]]
    /\ UNCHANGED <<safe_keys, work, queries, labels, raster, request, sessions, documents, tempFiles, scheduled, tasks, analyses>>

\* documentId is a unique column of DocumentAnalysis: a create under a key
\* that a row already has is rejected by the database
KeyTaken(rows, row) ==
    \E a \in 1..Len(rows) : rows[a].documentId = row.documentId

UniqueConstraintFailed == <<"Unique constraint failed">>

\* 53-60: db.documentanalysis.create, then analysis_id = analysis.id
A_Create(c) ==
    /\ calls[c].pc = "create"
    /\ LET row == NewAnalysis(DocInt(calls[c].document_id))
           taken == KeyTaken(analyses, row)
       IN \E ok \in BOOLEAN, m \in ErrMsgs :
            IF ok /\ ~taken
            THEN /\ analyses' = Append(analyses, row)
                 /\ calls' = [calls EXCEPT ![c] =
                                [@ EXCEPT !.pc = "download",
                                          !.analysis_id = Len(analyses) + 1]]
            ELSE LET e == IF taken THEN UniqueConstraintFailed ELSE m IN
                 /\ calls' = [calls EXCEPT ![c] =
                                ToOuterHandler([@ EXCEPT !.failed = "create",
                                                         !.cause = e], e)]
                 /\ UNCHANGED analyses
    /\ UNCHANGED <<safe_keys, work, queries, labels, raster, request, sessions, documents, tempFiles, scheduled, tasks>>

\* 62-71: the original PDF is fetched from the object storage
A_Download(c) ==
    /\ calls[c].pc = "download"
    /\ \E o \in DownloadOutcomes :
         calls' = [calls EXCEPT ![c] =
                     IF o[1] = "ok" THEN [@ EXCEPT !.pc = "ocr"]
                     ELSE ToInnerHandler(@, "download", "Failed to download PDF: ", o[2])]
    /\ UNCHANGED <<safe_keys, work, queries, labels, raster, request, sessions, documents, tempFiles, scheduled, tasks, analyses>>

\* 73-82: ocr_service.extract_text_from_pdf
A_Ocr(c) ==
    /\ calls[c].pc = "ocr"
    /\ \E o \in RemoteOutcomes :
         calls' = [calls EXCEPT ![c] =
                     IF o[1] = "ok" THEN [@ EXCEPT !.pc = "llm"]
                     ELSE ToInnerHandler(@, "ocr", "Failed to extract text from PDF: ", o[2])]
    /\ UNCHANGED <<safe_keys, work, queries, labels, raster, request, sessions, documents, tempFiles, scheduled, tasks, analyses>>

\* llm_service.py 48-58: the four requests, awaited one after the other
SubQueries == <<"fraudSentences", "mistakeWords", "documentType", "documentSummary">>

\* the prefix each request puts before the message of its failure
\* (llm_service.py 108, 162, 190, 218)
SubQueryPrefix ==
    <<"Fraud detection failed: ", "Mistake detection failed: ",
      "Document classification failed: ", "Summary generation failed: ">>

\* client.post and raise_for_status of one request: the answer, or an error
HttpOutcomes == {<<"ok", <<>> >>, <<"raises", <<"timeout">> >>}

\* one run of the four requests: for each, whether the endpoint answers
SubQueryRuns == [1..Len(SubQueries) -> HttpOutcomes]

\* the first request that raises; the requests after it are not sent
FirstFailure(run) ==
    IF \A i \in 1..Len(SubQueries) : run[i][1] = "ok" THEN 0
    ELSE CHOOSE i \in 1..Len(SubQueries) :
            /\ run[i][1] # "ok"
            /\ \A j \in 1..(i - 1) : run[j][1] = "ok"

\* llm_service.py 34-68, LLMService.analyze_document_text: the dictionary of
\* the four results, or the exception of the first failing request, wrapped
analyze_document_text_defaults(run) ==
    <<"ok", [i \in 1..Len(SubQueries) |->
                IF FirstFailure(run) # 0 /\ i >= FirstFailure(run) THEN "null"
                ELSE "value"]>>
analyze_document_text(run) ==
    LET f == FirstFailure(run) IN
    IF f = 0 THEN <<"ok", [i \in 1..Len(SubQueries) |-> "value"]>>
    ELSE <<"raises", <<"LLM analysis failed: ", SubQueryPrefix[f]>> \o run[f][2]>>

\* 84-93: llm_service.analyze_document_text
A_Llm(c) ==
    /\ calls[c].pc = "llm"
    /\ \E o \in {analyze_document_text(run) : run \in SubQueryRuns} :
         calls' = [calls EXCEPT ![c] =
                     IF o[1] = "ok" THEN [@ EXCEPT !.pc = "complete", !.llm_results = o[2]]
                     ELSE ToInnerHandler(@, "llm", "Failed to analyze text with LLM: ", o[2])]
    /\ UNCHANGED <<safe_keys, work, queries, labels, raster, request, sessions, documents, tempFiles, scheduled, tasks, analyses>>

\* the _update_failed_status of an inner handler, then raise Exception(error_msg)
A_UpdateFailedInner(c) ==
    /\ calls[c].pc = "update_failed_inner"
    /\ \E ok \in BOOLEAN :
         /\ analyses' = UpdateFailedStatus(analyses, calls[c].analysis_id,
                                            calls[c].error, ok)
         /\ calls' = [calls EXCEPT ![c] =
                        [ToOuterHandler(@, @.error) EXCEPT
                            !.updates = IF ok THEN @ + 1 ELSE @]]
    /\ UNCHANGED <<safe_keys, work, queries, labels, raster, request, sessions, documents, tempFiles, scheduled, tasks>>

\* 98-106: the data of the update: the four results under their names
\* and the extracted text
CompletedData(llm_results) ==
    [f \in ResultFields |->
        IF f = "documentText" THEN "value"
        ELSE llm_results[CHOOSE i \in 1..Len(SubQueries) : SubQueries[i] = f]]

\* 110-115: the return statement inside the try; the finally clause follows
ReturnRaises(t) == ToOuterHandler(t, <<"timeout">>)
Return(t) == [t EXCEPT !.pc = "disconnect", !.llm_results = <<>>]

\* 95-115: the COMPLETED update with the results, then return
A_Complete(c) ==
    /\ calls[c].pc = "complete"
    /\ \E ok \in BOOLEAN, m \in ErrMsgs :
         IF ok
         THEN /\ analyses' = [analyses EXCEPT ![calls[c].analysis_id] =
                                [@ EXCEPT !.status = "COMPLETED",
                                          !.results = CompletedData(calls[c].llm_results)]]
              /\ calls' = [calls EXCEPT ![c] = Return(@)]
         ELSE /\ calls' = [calls EXCEPT ![c] =
                             ToOuterHandler([@ EXCEPT !.failed = "complete", !.cause = m,
                                                      !.llm_results = <<>>], m)]
              /\ UNCHANGED analyses
    /\ UNCHANGED <<safe_keys, work, queries, labels, raster, request, sessions, documents, tempFiles, scheduled, tasks>>

\* 117-124: except Exception as e: _update_failed_status(str(e)); raise
A_UpdateFailedOuter(c) ==
    /\ calls[c].pc = "update_failed_outer"
    /\ \E ok \in BOOLEAN :
         /\ analyses' = UpdateFailedStatus(analyses, calls[c].analysis_id,
                                            calls[c].error, ok)
         /\ calls' = [calls EXCEPT ![c] =
                        [@ EXCEPT !.pc = "disconnect",
                                  !.updates = IF ok THEN @ + 1 ELSE @]]
    /\ UNCHANGED <<safe_keys, work, queries, labels, raster, request, sessions, documents, tempFiles, scheduled, tasks>>

\* the call is over: it returned, or an exception left it; the local that
\* held the exception is no longer read and is reset, the history is kept
CallEnded(c, pc) == [c EXCEPT !.pc = pc, !.error = <<>>]

\* 126-128: finally: await db.disconnect(); an exception raised here replaces
\* the one in flight
A_Disconnect(c) ==
    /\ calls[c].pc = "disconnect"
    /\ \E ok \in BOOLEAN :
         calls' = [calls EXCEPT ![c] =
                     IF ~ok THEN CallEnded(@, "raised")
                     ELSE IF @.error = <<>> THEN CallEnded(@, "returned")
                     ELSE CallEnded(@, "raised")]
    /\ UNCHANGED <<safe_keys, work, queries, labels, raster, request, sessions, documents, tempFiles, scheduled, tasks, analyses>>

\* ------------------------------------------------------ get_analysis_status
NewQuery(document_id) ==
    [pc |-> "connect", document_id |-> document_id, key |-> <<>>,
     result |-> "none", error |-> <<>>,
     \* history: the key of a find_unique that was issued
     looked_up |-> <<>>]

\* 145-148: key = str(int(document_id.split('/')[-1])), and the id itself
\* when int() raises ValueError
StatusKey(document_id) ==
    IF IdIsInvalid(document_id) THEN Joined(document_id)
    ELSE StrOf(DocInt(document_id))

\* db.documentanalysis.find_unique(where={"documentId": key})
FindAnalysis(key) ==
    {a \in 1..Len(analyses) : analyses[a].documentId = key}

\* 152-173: the dictionary returned, by its status entry
StatusResult(key) ==
    IF FindAnalysis(key) = {} THEN "NOT_FOUND"
    ELSE analyses[CHOOSE a \in FindAnalysis(key) : TRUE].status

\* an entry point calls get_analysis_status(document_id)
Q_Invoke ==
    /\ Len(calls) + Len(queries) < MaxCalls
    /\ \E document_id \in DocIdInputs :
         queries' = Append(queries, NewQuery(document_id))
    /\ UNCHANGED <<safe_keys, work, labels, raster, request, sessions, documents, tempFiles,
                   scheduled, tasks, analyses, calls>>

\* 141-148: db.connect() inside the try, then the key
Q_Connect(q) ==
    /\ queries[q].pc = "connect"
    /\ \E ok \in BOOLEAN, m \in ErrMsgs :
         queries' = [queries EXCEPT ![q] =
                       IF ok
                       THEN [@ EXCEPT !.pc = "find_unique",
                                      !.key = StatusKey(queries[q].document_id)]
                       ELSE [@ EXCEPT !.pc = "disconnect", !.error = m]]
    /\ UNCHANGED <<safe_keys, work, labels, raster, request, sessions, documents, tempFiles,
                   scheduled, tasks, analyses, calls>>

\* 150-173: the lookup and the result
Q_FindUnique(q) ==
    /\ queries[q].pc = "find_unique"
    /\ \E ok \in BOOLEAN, m \in ErrMsgs :
         queries' = [queries EXCEPT ![q] =
                       IF ok
                       THEN [@ EXCEPT !.pc = "disconnect",
                                      !.looked_up = queries[q].key,
                                      !.result = StatusResult(queries[q].key)]
                       ELSE [@ EXCEPT !.pc = "disconnect", !.error = m,
                                      !.looked_up = queries[q].key]]
    /\ UNCHANGED <<safe_keys, work, labels, raster, request, sessions, documents, tempFiles,
                   scheduled, tasks, analyses, calls>>

\* 175-176: finally: await db.disconnect()
Q_Disconnect(q) ==
    /\ queries[q].pc = "disconnect"
    /\ \E ok \in BOOLEAN :
         queries' = [queries EXCEPT ![q] =
                       IF ~ok THEN [CallEnded(@, "raised") EXCEPT !.result = "none"]
                       ELSE IF @.error = <<>> THEN CallEnded(@, "returned")
                       ELSE CallEnded(@, "raised")]
    /\ UNCHANGED <<safe_keys, work, labels, raster, request, sessions, documents, tempFiles,
                   scheduled, tasks, analyses, calls>>

\* ----------------------------------------------------------- specifications
InitRows ==
    /\ sessions = <<>>
    /\ documents = <<>>
    /\ tempFiles = {}
    /\ scheduled = <<>>
    /\ tasks = <<>>
    /\ analyses = <<>>
    /\ calls = <<>>
    /\ queries = <<>>

\* the page-level run and the rasterizer are not part of these specifications
NoLabels == [pc |-> "none"]
NoRaster == [pc |-> "none"]
NoKeys == [pc |-> "none"]
NoWork == [pc |-> "none"]

Init ==
    /\ request \in {NewRequest(fs) : fs \in UploadLists(PipelineUploads)}
    /\ InitRows
    /\ labels = NoLabels
    /\ raster = NoRaster
    /\ safe_keys = NoKeys
    /\ work = NoWork

TaskIds == 1..Len(tasks)

Next ==
    \/ Classify
    \/ CreateSession
    \/ CreateDocument
    \/ Respond
    \/ \E k \in TaskIds : Connect(k)
    \/ \E k \in TaskIds : FindUnique(k)
    \/ \E k \in TaskIds : Persist(k)
    \/ \E k \in TaskIds : CountTotal(k)
    \/ \E k \in TaskIds : CountSuccessfulDocs(k)
    \/ \E k \in TaskIds : UpdateSession(k)
    \/ \E k \in TaskIds : MarkFailed(k)
    \/ \E k \in TaskIds : Disconnect(k)

Spec == Init /\ [][Next]_vars

InitIntake ==
    /\ request \in {NewRequest(fs) : fs \in UploadLists(IntakeUploads)}
    /\ InitRows
    /\ labels = NoLabels
    /\ raster = NoRaster
    /\ safe_keys = NoKeys
    /\ work = NoWork

NextIntake ==
    \/ Classify
    \/ CreateSession
    \/ CreateDocument
    \/ Respond

SpecIntake == InitIntake /\ [][NextIntake]_vars

CallIds == 1..Len(calls)
QueryIds == 1..Len(queries)

InitAnalysis ==
    /\ request = NewRequest(<<>>)
    /\ InitRows
    /\ labels = NoLabels
    /\ raster = NoRaster
    /\ safe_keys = NoKeys
    /\ work = NoWork

NextAnalysis ==
    \/ Invoke
    \/ \E c \in CallIds : A_Connect(c)
    \/ \E c \in CallIds : A_Create(c)
    \/ \E c \in CallIds : A_Download(c)
    \/ \E c \in CallIds : A_Ocr(c)
    \/ \E c \in CallIds : A_Llm(c)
    \/ \E c \in CallIds : A_UpdateFailedInner(c)
    \/ \E c \in CallIds : A_Complete(c)
    \/ \E c \in CallIds : A_UpdateFailedOuter(c)
    \/ \E c \in CallIds : A_Disconnect(c)
    \/ Q_Invoke
    \/ \E q \in QueryIds : Q_Connect(q)
    \/ \E q \in QueryIds : Q_FindUnique(q)
    \/ \E q \in QueryIds : Q_Disconnect(q)

SpecAnalysis == InitAnalysis /\ [][NextAnalysis]_vars

\* ------------------------------------------------------------ pdf_to_images
\* File contents are numbered.  Content 0 is no PDF (fitz.open raises);
\* the others are PDFs, given by the pixel sizes of their pages at 300 dpi.
PdfBytes == 0..4

PagesOfPdf(bytes) ==
    CASE bytes = 1 -> << [width |-> 4, height |-> 6] >>
      [] bytes = 2 -> << [width |-> 4, height |-> 6], [width |-> 6, height |-> 4] >>
      [] bytes = 3 -> << >>
      [] bytes = 4 -> << [width |-> 4, height |-> 6], [width |-> 4, height |-> 6],
                         [width |-> 6, height |-> 4] >>

IsPdfBytes(bytes) == bytes \in 1..4

\* hashlib.sha256(...).hexdigest()[:16]: a function of the bytes alone; the
\* truncated digest is not injective (contents 2 and 4 share theirs)
Sha256Prefix(bytes) ==
    CASE bytes = 0 -> "d0" [] bytes = 1 -> "d1" [] bytes = 2 -> "d2"
      [] bytes = 3 -> "d3" [] bytes = 4 -> "d2"

PdfPaths == {"a.pdf", "b.pdf", "c.pdf"}
WorkRoot == "work_dir"

\* compute_doc_hash (pdf.py 12-17): the file at pdf_path is read
compute_doc_hash_of_path(files, pdf_path) == pdf_path
compute_doc_hash(files, pdf_path) == Sha256Prefix(files[pdf_path])

\* PageImage(index=i, path=pages_dir/page_<i>.png, width, height)
PageImage(index, path, width, height) ==
    [index |-> index, path |-> path, width |-> width, height |-> height]

\* pdf.py 42-50: enumerate(doc, start=1)
RenderPages(doc_dir, sizes) ==
    [i \in 1..Len(sizes) |->
        PageImage(i, <<doc_dir, "pages", i>>, sizes[i].width, sizes[i].height)]

\* pdf_to_images (pdf.py 23-52): the value returned and whether it raised
pdf_to_images(files, pdf_path, work_dir) ==
    LET bytes    == files[pdf_path]
        doc_hash == compute_doc_hash(files, pdf_path)
        doc_dir  == <<work_dir, doc_hash>>
    IN [pdf_path |-> pdf_path, bytes |-> bytes, doc_hash |-> doc_hash,
        doc_dir |-> doc_dir,
        raised |-> ~IsPdfBytes(bytes),
        pages |-> IF IsPdfBytes(bytes) THEN RenderPages(doc_dir, PagesOfPdf(bytes))
                  ELSE <<>>]

NewRaster(files) == [pc |-> "ready", files |-> files, dirs |-> {}, results |-> <<>>]

\* one call: doc_dir/pages is made and the original copied (31-38) before
\* the document is opened (42)
PdfToImages ==
    /\ raster.pc = "ready"
    /\ Len(raster.results) < MaxRasterCalls
    /\ \E pdf_path \in PdfPaths :
         LET r == pdf_to_images(raster.files, pdf_path, WorkRoot) IN
         raster' = [raster EXCEPT !.dirs = @ \cup {r.doc_dir},
                                  !.results = Append(@, r)]
    /\ UNCHANGED <<safe_keys, work, queries, labels, request, sessions, documents, tempFiles,
                   scheduled, tasks, analyses, calls>>

InitRaster ==
    /\ request = NewRequest(<<>>)
    /\ InitRows
    /\ labels = NoLabels
    /\ raster \in {NewRaster(files) : files \in [PdfPaths -> PdfBytes]}
    /\ safe_keys = NoKeys
    /\ work = NoWork

NextRaster ==
    \/ PdfToImages

SpecRaster == InitRaster /\ [][NextRaster]_vars

\* ------------------------------------------------------ detection and payload
\* Confidences are in hundredths, coordinates in pixels.
ConfThres == 25      \* conf_thres=0.25 (processors.py 68)

\* one box of a YOLO result: box.conf[0] and box.xyxy[0]
Box(conf, x1, y1, x2, y2) == [conf |-> conf, xyxy |-> <<x1, y1, x2, y2>>]

\* what a detector returns for one page; the code puts no condition on the
\* coordinates it receives
BoxAtThreshold    == Box(25, 1, 1, 3, 3)
BoxBelowThreshold == Box(24, 0, 0, 2, 2)
BoxBeyondPage     == Box(90, 2, 2, 7, 7)

RawBoxLists(category) ==
    CASE category = "qr" -> { <<>>, <<BoxAtThreshold>>,
                              <<BoxBeyondPage, BoxBelowThreshold, BoxAtThreshold>> }
      [] category = "signature" -> { <<>>, <<BoxAtThreshold>>, <<BoxBelowThreshold>> }
      [] category = "stamp" -> { <<>>, <<BoxBelowThreshold, BoxBeyondPage>> }

Categories == {"qr", "signature", "stamp"}

\* the three model calls of run_inference_on_pages (59-61): per model one
\* result per page
ModelResults(category, n) == [1..n -> {[boxes |-> b] : b \in RawBoxLists(category)}]
ModelOutputs(n) ==
    {[qr |-> q, signature |-> g, stamp |-> t] :
        q \in ModelResults("qr", n),
        g \in ModelResults("signature", n),
        t \in ModelResults("stamp", n)}

Detection(category, x, y, w, h, area, confidence) ==
    [category |-> category, x |-> x, y |-> y, w |-> w, h |-> h,
     area |-> area, confidence |-> confidence]

\* utils.py 18-19: if conf < conf_thres: continue
BelowOrAtThreshold(conf, conf_thres) == conf <= conf_thres
BelowThreshold(conf, conf_thres) == conf < conf_thres

\* utils.py 16-33: the loop over the boxes of one result
RECURSIVE DetectionsOfBoxes(_, _, _)
DetectionsOfBoxes(boxes, category, conf_thres) ==
    IF boxes = <<>> THEN <<>>
    ELSE LET box == Head(boxes)
             x1  == box.xyxy[1]
             y1  == box.xyxy[2]
             x2  == box.xyxy[3]
             y2  == box.xyxy[4]
             w   == x2 - x1
             h   == y2 - y1
         IN (IF BelowThreshold(box.conf, conf_thres) THEN <<>>
             ELSE <<Detection(category, x1, y1, w, h, w * h, box.conf)>>)
            \o DetectionsOfBoxes(Tail(boxes), category, conf_thres)

\* utils.py 13-34
RECURSIVE yolo_results_to_detections(_, _, _)
yolo_results_to_detections(results, category, conf_thres) ==
    IF results = <<>> THEN <<>>
    ELSE DetectionsOfBoxes(Head(results).boxes, category, conf_thres)
         \o yolo_results_to_detections(Tail(results), category, conf_thres)

\* dict.get(key, [])
Get(dict, key) == IF key \in DOMAIN dict THEN dict[key] ELSE <<>>

\* document_processor.py 53-61: the models invoked, in order; none for no pages
ModelCalls(pages) ==
    IF pages = <<>> THEN <<>> ELSE <<"qr", "signature", "stamp">>

\* document_processor.py 46-74: page index -> detections, appended in the
\* order qr, signature, stamp; {} for no pages
run_inference_stamp_first(models, pages, conf_thres) ==
    IF pages = <<>> THEN <<>>
    ELSE [index \in {pages[k].index : k \in 1..Len(pages)} |->
            LET idx == CHOOSE k \in 1..Len(pages) : pages[k].index = index IN
            yolo_results_to_detections(<<models["stamp"][idx]>>, "stamp", conf_thres)
              \o yolo_results_to_detections(<<models["qr"][idx]>>, "qr", conf_thres)
              \o yolo_results_to_detections(<<models["signature"][idx]>>, "signature", conf_thres)]
run_inference_on_pages(models, pages, conf_thres) ==
    IF pages = <<>> THEN <<>>
    ELSE [index \in {pages[k].index : k \in 1..Len(pages)} |->
            LET idx == CHOOSE k \in 1..Len(pages) : pages[k].index = index IN
            yolo_results_to_detections(<<models["qr"][idx]>>, "qr", conf_thres)
              \o yolo_results_to_detections(<<models["signature"][idx]>>, "signature", conf_thres)
              \o yolo_results_to_detections(<<models["stamp"][idx]>>, "stamp", conf_thres)]

NoFlags == [has_qr |-> FALSE, has_stamp |-> FALSE, has_signature |-> FALSE]

\* processors.py 75-80: the if/elif chain on one detection
FlagStepSignatureAsStamp(flags, d) ==
    IF d.category = "qr" THEN [flags EXCEPT !.has_qr = TRUE]
    ELSE [flags EXCEPT !.has_stamp = TRUE]
FlagStep(flags, d) ==
    IF d.category = "qr" THEN [flags EXCEPT !.has_qr = TRUE]
    ELSE IF d.category = "stamp" THEN [flags EXCEPT !.has_stamp = TRUE]
    ELSE IF d.category = "signature" THEN [flags EXCEPT !.has_signature = TRUE]
    ELSE flags

\* 74-91: the inner loop
RECURSIVE FlagsOfDetections(_, _)
FlagsOfDetections(flags, dets) ==
    IF dets = <<>> THEN flags
    ELSE FlagsOfDetections(FlagStep(flags, Head(dets)), Tail(dets))

\* 71-92: the loop over page_dets_raw.items(), keys in insertion order
RECURSIVE FlagsOfPages(_, _, _)
FlagsOfPages(flags, page_dets_raw, keys) ==
    IF keys = <<>> THEN flags
    ELSE FlagsOfPages(FlagsOfDetections(flags, page_dets_raw[Head(keys)]),
                      page_dets_raw, Tail(keys))

\* the keys of the dictionary built on line 63 of document_processor.py
ItemKeys(page_dets_raw, pages) ==
    IF page_dets_raw = <<>> THEN <<>> ELSE [k \in 1..Len(pages) |-> pages[k].index]

\* object keys and the URL upload_file returns for a key
ObjectKey(session_id, document_id, rest) ==
    <<"sessions", session_id, "documents", document_id>> \o rest
ObjectUrl(key) == <<"url">> \o key

\* 54-58: page_urls
PageUrls(session_id, document_id, pages) ==
    [index \in {pages[k].index : k \in 1..Len(pages)} |->
        ObjectUrl(ObjectKey(session_id, document_id, <<"pages", index>>))]

\* 95-100: labeled_pages, one PageArtifacts per page in page order
LabeledPagesLastDropped(session_id, document_id, pages) ==
    [k \in 1..(Len(pages) - 1) |->
        [pageIndex |-> pages[k].index,
         imageUrl |-> PageUrls(session_id, document_id, pages)[pages[k].index],
         labeledImageUrl |->
             ObjectUrl(ObjectKey(session_id, document_id, <<"labeled", pages[k].index>>))]]
LabeledPages(session_id, document_id, pages) ==
    [k \in 1..Len(pages) |->
        [pageIndex |-> pages[k].index,
         imageUrl |-> PageUrls(session_id, document_id, pages)[pages[k].index],
         labeledImageUrl |->
             ObjectUrl(ObjectKey(session_id, document_id, <<"labeled", pages[k].index>>))]]

Letters ==
    {"a", "b", "c", "d", "e", "f", "g", "h", "i", "j", "k", "l", "m",
     "n", "o", "p", "q", "r", "s", "t", "u", "v", "w", "x", "y", "z",
     "A", "B", "C", "D", "E", "F", "G", "H", "I", "J", "K", "L", "M",
     "N", "O", "P", "Q", "R", "S", "T", "U", "V", "W", "X", "Y", "Z"}

\* the token of uuid4().hex, whatever it is
UuidHex == <<"0", "f">>

\* processors.py 110-116
_safe_graphql_key_unprefixed(name) ==
    LET key == [k \in 1..Len(name) |->
                  IF name[k] \in Letters \cup Digits \cup {"_"} THEN name[k] ELSE "_"]
    IN IF key = <<>> THEN <<"k", "_">> \o UuidHex ELSE key
_safe_graphql_key(name) ==
    LET key == [k \in 1..Len(name) |->
                  IF name[k] \in Letters \cup Digits \cup {"_"} THEN name[k] ELSE "_"]
    IN IF key = <<>> THEN <<"k", "_">> \o UuidHex
       ELSE IF ~(key[1] \in Letters \/ key[1] = "_") THEN <<"k", "_">> \o key
       ELSE key

\* formatters.py 23-40: the annotations of one page; ann_id counts on
\* across the pages
Annotations(dets, ann_id) ==
    [j \in 1..Len(dets) |->
        [key |-> <<"annotation_", ann_id + j>>,
         category |-> dets[j].category,
         bbox |-> [x |-> dets[j].x, y |-> dets[j].y,
                   width |-> dets[j].w, height |-> dets[j].h],
         area |-> dets[j].area,
         confidence |-> dets[j].confidence]]

\* formatters.py 21-49: the loop over the pages; a dictionary is a function
\* on its keys, and a later assignment to a key replaces an earlier one
RECURSIVE PageEntries(_, _, _)
PageEntries(pages, page_dets, ann_id) ==
    IF pages = <<>> THEN <<>>
    ELSE LET page == Head(pages)
             dets == Get(page_dets, page.index)
         IN PageEntries(Tail(pages), page_dets, ann_id + Len(dets))
            @@ (<<"page_", page.index>> :>
                   [annotations |-> Annotations(dets, ann_id),
                    page_size |-> [width |-> page.width, height |-> page.height]])

\* formatters.py 8-51
build_challenge_json(pdf_name, pages, page_dets) ==
    pdf_name :> PageEntries(pages, page_dets, 0)

\* processors.py 118-134: original_name and artifacts are put into the
\* entry of the key
ChallengeJson(safe_key, pdf_name, pages, page_dets_raw, urls, labeled_pages) ==
    LET challenge_json == build_challenge_json(safe_key, pages, page_dets_raw) IN
    [challenge_json EXCEPT ![safe_key] =
        (<<"artifacts">> :> [originalPdfUrl |-> urls.original_url,
                             labeledPdfUrl |-> urls.labeled_pdf_url,
                             pages |-> labeled_pages])
        @@ (<<"original_name">> :> pdf_name)
        @@ challenge_json[safe_key]]

N_1_pdf == <<"1", ".", "p", "d", "f">>
LabelNames == {N_a_pdf, N_1_pdf}

\* the PDFs of at most MaxPages pages, and content 0
LabelBytes == {b \in PdfBytes : ~IsPdfBytes(b) \/ Len(PagesOfPdf(b)) <= MaxPages}

\* the temp file written by intake for the document (service.py 61-64)
TempPath(session_id, document_id) == <<"uploads", session_id, document_id>>

NewLabels(original_name, bytes, models) ==
    [pc |-> "process", session_id |-> 1, document_id |-> 1,
     bytes |-> bytes, models |-> models,
     pages |-> <<>>, model_calls |-> <<>>, page_dets_raw |-> <<>>, flags |-> NoFlags,
     labeled_pages |-> <<>>, challenge_json |-> <<>>,
     row |-> NewDocument(1, original_name)]

\* 45-104: rasterize, upload, detect, derive the flags, annotate
L_Process ==
    /\ labels.pc = "process"
    /\ LET file_path == TempPath(labels.session_id, labels.document_id)
           r == pdf_to_images(file_path :> labels.bytes, file_path, WorkRoot)
           page_dets_raw == run_inference_on_pages(labels.models, r.pages, ConfThres)
       IN labels' =
            IF r.raised THEN [labels EXCEPT !.pc = "mark_failed"]
            ELSE [labels EXCEPT
                    !.pc = "find_unique",
                    !.pages = r.pages,
                    !.model_calls = ModelCalls(r.pages),
                    !.page_dets_raw = page_dets_raw,
                    !.flags = FlagsOfPages(NoFlags, page_dets_raw,
                                           ItemKeys(page_dets_raw, r.pages)),
                    !.labeled_pages = LabeledPages(labels.session_id,
                                                   labels.document_id, r.pages)]
    /\ UNCHANGED <<safe_keys, work, queries, raster, request, sessions, documents, tempFiles,
                   scheduled, tasks, analyses, calls>>

\* 107-134: the row is read for its original name and the payload built
L_FindUnique ==
    /\ labels.pc = "find_unique"
    /\ \E ok \in BOOLEAN :
         labels' =
            IF ~ok THEN [labels EXCEPT !.pc = "mark_failed"]
            ELSE LET pdf_name == IF labels.row.originalName # <<>>
                                 THEN labels.row.originalName
                                 ELSE <<labels.document_id>>
                     original_url == ObjectUrl(ObjectKey(labels.session_id,
                                         labels.document_id, <<"original.pdf">>))
                     labeled_pdf_url == ObjectUrl(ObjectKey(labels.session_id,
                                         labels.document_id, <<"labeled", "labeled.pdf">>))
                 IN [labels EXCEPT
                       !.pc = "persist",
                       !.challenge_json =
                           ChallengeJson(_safe_graphql_key(pdf_name), pdf_name,
                                         labels.pages, labels.page_dets_raw,
                                         [original_url |-> original_url,
                                          labeled_pdf_url |-> labeled_pdf_url],
                                         labels.labeled_pages)]
    /\ UNCHANGED <<safe_keys, work, queries, raster, request, sessions, documents, tempFiles,
                   scheduled, tasks, analyses, calls>>

\* 139-146: the data of the update
UpdateData(challenge_json, flags) ==
    [labelsPosition |-> challenge_json,
     hasSignature |-> flags.has_signature,
     hasQR |-> flags.has_qr,
     hasStamp |-> flags.has_stamp,
     status |-> "SUCCESSFUL"]

\* 137-147: db.sessiondocument.update
L_Persist ==
    /\ labels.pc = "persist"
    /\ \E ok \in BOOLEAN :
         labels' =
            IF ok
            THEN [labels EXCEPT
                    !.pc = "done",
                    !.row = UpdateData(labels.challenge_json, labels.flags) @@ labels.row]
            ELSE [labels EXCEPT !.pc = "mark_failed"]
    /\ UNCHANGED <<safe_keys, work, queries, raster, request, sessions, documents, tempFiles,
                   scheduled, tasks, analyses, calls>>

\* 163-172: the handler's FAILED update, its own failure swallowed
L_MarkFailed ==
    /\ labels.pc = "mark_failed"
    /\ \E ok \in BOOLEAN :
         labels' = [labels EXCEPT
                      !.pc = "done",
                      !.row = IF ok THEN [status |-> "FAILED"] @@ labels.row
                              ELSE labels.row]
    /\ UNCHANGED <<safe_keys, work, queries, raster, request, sessions, documents, tempFiles,
                   scheduled, tasks, analyses, calls>>

InitLabels ==
    /\ request = NewRequest(<<>>)
    /\ InitRows
    /\ raster = NoRaster
    /\ safe_keys = NoKeys
    /\ work = NoWork
    /\ labels \in UNION {{NewLabels(n, b, m) :
                             n \in LabelNames,
                             m \in ModelOutputs(IF IsPdfBytes(b)
                                                THEN Len(PagesOfPdf(b)) ELSE 0)}
                         : b \in LabelBytes}

NextLabels ==
    \/ L_Process
    \/ L_FindUnique
    \/ L_Persist
    \/ L_MarkFailed

SpecLabels == InitLabels /\ [][NextLabels]_vars

\* ------------------------------------------------------- _safe_graphql_key
\* File names for the sanitizer: an ASCII lower and upper case letter, a
\* digit, the underscore, a dot, and two characters outside ASCII, a letter
\* (U+00E9, for which str.isalpha() is true) and a digit (U+0663).
KeyChars == {"a", "Z", "7", "_", ".", "U+00E9", "U+0663"}

MaxNameLen == 3

KeyNames == UNION {[1..n -> KeyChars] : n \in 0..MaxNameLen}

NewKeys(name) == [pc |-> "call", name |-> name, key |-> <<>>]

\* processors.py 118: safe_key = _safe_graphql_key(pdf_name)
SafeKey ==
    /\ safe_keys.pc = "call"
    /\ safe_keys' = [safe_keys EXCEPT !.pc = "returned",
                                      !.key = _safe_graphql_key(safe_keys.name)]
    /\ UNCHANGED <<work, queries, labels, raster, request, sessions, documents,
                   tempFiles, scheduled, tasks, analyses, calls>>

InitKeys ==
    /\ request = NewRequest(<<>>)
    /\ InitRows
    /\ labels = NoLabels
    /\ raster = NoRaster
    /\ work = NoWork
    /\ safe_keys \in {NewKeys(name) : name \in KeyNames}

NextKeys ==
    \/ SafeKey

SpecKeys == InitKeys /\ [][NextKeys]_vars

\* ---------------------------------------------- tasks on one working root
\* The pipeline tasks of one process run on one event loop: a task runs
\* until an await suspends it, and only then another task runs. work.loop is
\* the task that is running and has more synchronous code to execute, 0
\* when every task is suspended or over. work.dirs maps a content hash to the
\* files that exist under work_root/<hash>.
MaxTasks == 2

\* the PDFs the tasks are given: one page, two pages
WorkBytes == {1, 2}

WorkHashes == {Sha256Prefix(b) : b \in WorkBytes}

NewWorkTask(document_id, bytes) ==
    [document_id |-> document_id, bytes |-> bytes, pc |-> "connect",
     doc_hash |-> "", pages |-> <<>>, e |-> "none", status |-> "PENDING",
     \* history: a file the task went to read was not there
     missing |-> FALSE]

NewWork(bytes_of) ==
    [pc |-> "run", loop |-> 0,
     dirs |-> [h \in WorkHashes |-> {}],
     temp |-> 1..MaxTasks,
     tasks |-> [k \in 1..MaxTasks |-> NewWorkTask(k, bytes_of[k])]]

\* pdf.py 31-47: original.pdf and pages/page_<i>.png
RasterFiles(pages) ==
    {<<"original.pdf", 0>>} \cup {<<"page", pages[i].index>> : i \in 1..Len(pages)}

\* the page images read by the detectors (document_processor.py 56-61) and
\* by draw_boxes_on_page (utils.py 37-45)
PageFiles(pages) == {<<"page", pages[i].index>> : i \in 1..Len(pages)}

\* utils.py 37-85: page_<i>_labeled.png next to each page, and labeled.pdf
LabeledFiles(pages) ==
    {<<"labeled.pdf", 0>>} \cup {<<"labeled", pages[i].index>> : i \in 1..Len(pages)}

\* processors.py 62: await of the call expression: a coroutine that was
\* created is awaited and suspends the task at its first I/O; a call
\* expression that raises creates none
Suspends(outcome) == outcome = "called"

\* _safe_remove(doc_dir) (processors.py 31-38): shutil.rmtree
RemoveDir(dirs, doc_hash) == [dirs EXCEPT ![doc_hash] = {}]

\* 29-65: db.connect(), then rasterization, the raw uploads and the analysis
\* call
W_Rasterize(k) ==
    /\ work.pc = "run"
    /\ work.loop = 0
    /\ work.tasks[k].pc = "connect"
    /\ \E ok \in BOOLEAN, failed \in {"none", "upload_pages"} :
         LET t == work.tasks[k]
             file_path == TempPath(1, t.document_id)
             r == pdf_to_images(file_path :> t.bytes, file_path, WorkRoot)
             outcome == AnalysisCall(PipelineAnalyzeArgs(1, t.document_id))
             t1 == [t EXCEPT !.doc_hash = r.doc_hash, !.pages = r.pages]
         IN work' =
              IF ~ok
              THEN [work EXCEPT !.tasks[k] = [t EXCEPT !.pc = "raised", !.e = "connect"]]
              ELSE [work EXCEPT
                      !.dirs[r.doc_hash] = @ \cup RasterFiles(r.pages),
                      !.tasks[k] = IF failed # "none"
                                   THEN [t1 EXCEPT !.pc = "mark_failed", !.e = failed]
                                   ELSE [t1 EXCEPT !.pc = "inference"],
                      !.loop = IF failed = "none" /\ ~Suspends(outcome) THEN k ELSE 0]
    /\ UNCHANGED <<safe_keys, queries, labels, raster, request, sessions, documents,
                   tempFiles, scheduled, tasks, analyses, calls>>

\* 68-104: detection, the labeled images and their uploads, the labeled PDF;
\* a page image that is not there makes the step raise
W_Detect(k) ==
    /\ work.pc = "run"
    /\ work.loop \in {0, k}
    /\ work.tasks[k].pc = "inference"
    /\ \E failed \in {"none", "upload_labeled"} :
         LET t == work.tasks[k] IN
         work' =
           IF PageFiles(t.pages) \subseteq work.dirs[t.doc_hash]
           THEN [work EXCEPT
                   !.dirs[t.doc_hash] = @ \cup LabeledFiles(t.pages),
                   !.tasks[k] = IF failed = "none"
                                THEN [t EXCEPT !.pc = "persist"]
                                ELSE [t EXCEPT !.pc = "mark_failed", !.e = failed],
                   !.loop = 0]
           ELSE [work EXCEPT
                   !.tasks[k] = [t EXCEPT !.pc = "mark_failed", !.e = "inference",
                                          !.missing = TRUE],
                   !.loop = 0]
    /\ UNCHANGED <<safe_keys, queries, labels, raster, request, sessions, documents,
                   tempFiles, scheduled, tasks, analyses, calls>>

\* 107-151: find_unique and the SUCCESSFUL update, then
\* _safe_remove(doc_dir) and _safe_remove(file_path)
W_Persist(k) ==
    /\ work.pc = "run"
    /\ work.loop = 0
    /\ work.tasks[k].pc = "persist"
    /\ \E ok \in BOOLEAN :
         LET t == work.tasks[k] IN
         work' =
           IF ok
           THEN [work EXCEPT
                   !.dirs = RemoveDir(@, t.doc_hash),
                   !.temp = @ \ {t.document_id},
                   !.tasks[k] = [t EXCEPT !.pc = "disconnect", !.status = "SUCCESSFUL"]]
           ELSE [work EXCEPT
                   !.tasks[k] = [t EXCEPT !.pc = "mark_failed", !.e = "persist"]]
    /\ UNCHANGED <<safe_keys, queries, labels, raster, request, sessions, documents,
                   tempFiles, scheduled, tasks, analyses, calls>>

\* 163-179: the FAILED update, then the same two removals (doc_dir is bound:
\* the failure came after line 46)
W_MarkFailed(k) ==
    /\ work.pc = "run"
    /\ work.loop = 0
    /\ work.tasks[k].pc = "mark_failed"
    /\ \E ok \in BOOLEAN :
         LET t == work.tasks[k] IN
         work' = [work EXCEPT
                    !.dirs = RemoveDir(@, t.doc_hash),
                    !.temp = @ \ {t.document_id},
                    !.tasks[k] = [t EXCEPT !.pc = "disconnect",
                                           !.status = IF ok THEN "FAILED" ELSE @]]
    /\ UNCHANGED <<safe_keys, queries, labels, raster, request, sessions, documents,
                   tempFiles, scheduled, tasks, analyses, calls>>

\* 180-181: finally: await db.disconnect()
W_Disconnect(k) ==
    /\ work.pc = "run"
    /\ work.loop = 0
    /\ work.tasks[k].pc = "disconnect"
    /\ \E ok \in BOOLEAN :
         work' = [work EXCEPT !.tasks[k].pc = IF ok THEN "done" ELSE "raised"]
    /\ UNCHANGED <<safe_keys, queries, labels, raster, request, sessions, documents,
                   tempFiles, scheduled, tasks, analyses, calls>>

WorkTaskIds == 1..MaxTasks

InitWork ==
    /\ request = NewRequest(<<>>)
    /\ InitRows
    /\ labels = NoLabels
    /\ raster = NoRaster
    /\ safe_keys = NoKeys
    /\ work \in {NewWork(bytes_of) : bytes_of \in [1..MaxTasks -> WorkBytes]}

NextWork ==
    \/ \E k \in WorkTaskIds : W_Rasterize(k)
    \/ \E k \in WorkTaskIds : W_Detect(k)
    \/ \E k \in WorkTaskIds : W_Persist(k)
    \/ \E k \in WorkTaskIds : W_MarkFailed(k)
    \/ \E k \in WorkTaskIds : W_Disconnect(k)

SpecWork == InitWork /\ [][NextWork]_vars

\* ================================================================== claims
TaskDocument(k) == documents[tasks[k].document_id]
TaskOver(k) == tasks[k].pc \in {"done", "raised"}

C2_AnalysisFailureIsolated ==
    [][\A k \in TaskIds :
          /\ (tasks[k].pc = "connect" /\ tasks'[k].analysis \notin {"none", "called"}
                 => \/ tasks'[k].pc = "find_unique"
                    \/ tasks'[k].pc = "mark_failed" /\ tasks'[k].e \in FatalSteps)
          /\ (TaskDocument(k).status # "FAILED"
                /\ documents'[tasks[k].document_id].status = "FAILED"
                 => tasks[k].pc = "mark_failed" /\ tasks[k].e # "analysis")]_vars

C2_Witness ==
    \E k \in TaskIds :
        /\ tasks[k].analysis = "TypeError"
        /\ TaskDocument(k).status = "SUCCESSFUL"

\* C3: once intake is over, normally or by failing part-way, every Session it
\* created has documentsCount = N, the number of PDFs after expansion, and
\* exactly N Document rows.
C3_CountMatchesRows ==
    request.pc \in {"responded", "error"}
        => \A s \in 1..Len(sessions) :
              /\ sessions[s].documentsCount = Len(request.pdf_blobs)
              /\ CountDocuments(s) = sessions[s].documentsCount

C6_TaskNeverRaises ==
    \A k \in TaskIds : tasks[k].pc # "raised"

\* C7: a pipeline task that is over has left its Document in a terminal
\* status, SUCCESSFUL or FAILED.
C7_OverMeansTerminal ==
    \A k \in TaskIds :
        TaskOver(k) => TaskDocument(k).status \in {"SUCCESSFUL", "FAILED"}

\* ------------------------------------------------ expected intake results
\* s ends in suffix, compared without regard to case
HasSuffixNoCase(s, suffix) ==
    /\ Len(s) >= Len(suffix)
    /\ \A j \in 1..Len(suffix) :
          ToLower(s[Len(s) - Len(suffix) + j]) = suffix[j]

\* the PDFs an upload list stands for: <<k, 0>> for a direct upload k named
\* *.pdf, <<k, j>> for entry j, named *.pdf, of an upload k named *.zip
ExpectedPdfs(files) ==
    {<<k, 0>> : k \in {k \in 1..Len(files) :
                          /\ HasSuffixNoCase(files[k].filename, DotPdf)
                          /\ ~HasSuffixNoCase(files[k].filename, DotZip)}}
      \cup
    UNION {{<<k, j>> : j \in {j \in 1..Len(files[k].entries) :
                                HasSuffixNoCase(files[k].entries[j], DotPdf)}}
              : k \in {k \in 1..Len(files) :
                          HasSuffixNoCase(files[k].filename, DotZip)}}

ExpectedName(files, p) ==
    PathName(IF p[2] = 0 THEN files[p[1]].filename ELSE files[p[1]].entries[p[2]])

\* C9: uploads that yield no PDF after classification and expansion (an
\* empty list included) are rejected with 400 and nothing is created: no
\* Session, no Document, no temp file, no scheduled task.
C9_NoPdfsRejected ==
    /\ request.pc # "received"
    /\ ~ZipRaises(request.files)
    /\ ExpectedPdfs(request.files) = {}
    => /\ request.pc = "rejected"
       /\ request.response = 400
       /\ sessions = <<>>
       /\ documents = <<>>
       /\ tempFiles = {}
       /\ scheduled = <<>>
       /\ tasks = <<>>

C9_Witness ==
    /\ request.pc = "rejected"
    /\ \E k \in 1..Len(request.files) :
          IsZip(request.files[k]) /\ request.files[k].entries # <<>>

\* C10: the documents created by intake are exactly the direct uploads named
\* *.pdf and the *.pdf entries of the uploads named *.zip (case-insensitive),
\* one Document each, and documentsCount is their number; everything else is
\* ignored.
C10_DocumentsAreThePdfs ==
    request.pc = "responded"
    => LET expected == ExpectedPdfs(request.files) IN
       /\ sessions[request.session_id].documentsCount = Cardinality(expected)
       /\ Len(documents) = Cardinality(expected)
       /\ \A d \in DocumentIds : documents[d].sessionId = request.session_id
       /\ \A n \in {ExpectedName(request.files, p) : p \in expected}
                 \cup {documents[d].originalName : d \in DocumentIds} :
             Cardinality({d \in DocumentIds : documents[d].originalName = n})
               = Cardinality({p \in expected : ExpectedName(request.files, p) = n})

\* a ZIP with 3 PDFs and 1 .txt gives documentsCount = 3
C10_Witness ==
    /\ request.pc = "responded"
    /\ Len(request.files) = 1
    /\ request.files[1].entries = <<N_a_pdf, N_B_PDF, N_dir_c_Pdf, N_n_txt>>
    /\ sessions[request.session_id].documentsCount = 3
    /\ Len(documents) = 3

\* ------------------------------------------------------------ analysis claims
CallOver(c) == calls[c].pc \in {"returned", "raised"}
CallRow(c) == analyses[calls[c].analysis_id]

TaskOf(d) == CHOOSE k \in TaskIds : tasks[k].document_id = d

\* C11: when create_session_with_documents has returned the session id,
\* exactly one pipeline task is scheduled for each created Document, no task
\* has been started or has run any step, every Document of the session is
\* PENDING and the Session is PROCESSING.
C11_ReturnsBeforeAnyTask ==
    request.pc = "respond"
    => /\ Len(scheduled) = Len(documents)
       /\ \A d \in DocumentIds :
             /\ Cardinality({j \in 1..Len(scheduled) :
                                scheduled[j] = <<request.session_id, d>>}) = 1
             /\ documents[d].sessionId = request.session_id
             /\ documents[d].status = "PENDING"
             /\ documents[d].labelsPosition = "null"
       /\ tasks = <<>>
       /\ sessions[request.session_id].status = "PROCESSING"

C11_Witness ==
    /\ request.pc = "respond"
    /\ Len(documents) = 2
    /\ Len(scheduled) = 2

\* C12: there is one pipeline task per Document row of a session whose intake
\* responded, never two, and a Document row is only ever changed by a step of
\* the task created for it.
C12_SingleWriter ==
    [][/\ \A j, k \in TaskIds : tasks[j].document_id = tasks[k].document_id => j = k
       /\ (tasks # <<>> =>
              \A d \in DocumentIds : \E k \in TaskIds : tasks[k].document_id = d)
       /\ \A d \in DocumentIds :
             documents'[d] # documents[d]
                 => \E k \in TaskIds :
                       /\ tasks[k].document_id = d
                       /\ tasks'[k] # tasks[k]
                       /\ \A j \in TaskIds \ {k} : tasks'[j] = tasks[j]]_vars

C12_Witness ==
    /\ Len(tasks) = 2
    /\ documents[1].status = "SUCCESSFUL"
    /\ documents[2].status = "FAILED"
    /\ tasks[TaskOf(1)].pc = "done"
    /\ tasks[TaskOf(2)].pc = "done"

StepOrder ==
    << "pdf_to_images", "upload_original", "upload_pages", "analysis",
       "inference", "upload_labeled", "upload_labeled_pdf" >>

FinalSegmentIsInteger(document_id) ==
    LET seg == document_id[Len(document_id)] IN
    seg # <<>> /\ \A j \in 1..Len(seg) : seg[j] \in Digits

QueryOver(q) == queries[q].pc \in {"returned", "raised"}

\* C19: analyze_document and get_analysis_status take a bare integer or a
\* slash-delimited path ending in an integer and work under that integer as
\* key; for every other id they fail with an invalid-id error and neither
\* create nor look up a DocumentAnalysis record under another key.
C19_IdsNormalisedOrRejected ==
    /\ \A c \in CallIds :
          LET id == calls[c].document_id IN
          /\ (calls[c].analysis_id # 0
                 => /\ FinalSegmentIsInteger(id)
                    /\ analyses[calls[c].analysis_id].documentId = StrOf(DocInt(id)))
          /\ (~FinalSegmentIsInteger(id) /\ CallOver(c) => calls[c].pc = "raised")
    /\ \A q \in QueryIds :
          LET id == queries[q].document_id IN
          /\ (queries[q].looked_up # <<>>
                 => /\ FinalSegmentIsInteger(id)
                    /\ queries[q].looked_up = StrOf(DocInt(id)))
          /\ (~FinalSegmentIsInteger(id) /\ QueryOver(q)
                 => queries[q].pc = "raised" /\ queries[q].result = "none")

\* ------------------------------------------------------------------ rasterizer
\* C16: two calls of pdf_to_images on identical bytes, from whatever paths,
\* give the same content hash, the same output directory and the same number
\* of pages, and the pages returned carry the indices 1..P in order.
C16_RasterIdempotent ==
    /\ raster.pc = "ready"
    => /\ \A i, j \in 1..Len(raster.results) :
             LET r1 == raster.results[i]
                 r2 == raster.results[j]
             IN r1.bytes = r2.bytes
                  => /\ r1.doc_hash = r2.doc_hash
                     /\ r1.doc_dir = r2.doc_dir
                     /\ r1.raised = r2.raised
                     /\ Len(r1.pages) = Len(r2.pages)
       /\ \A i \in 1..Len(raster.results) :
             LET r == raster.results[i] IN
             /\ ~r.raised => Len(r.pages) = Len(PagesOfPdf(r.bytes))
             /\ \A k \in 1..Len(r.pages) : r.pages[k].index = k

C16_Witness ==
    /\ raster.pc = "ready"
    /\ \E i, j \in 1..Len(raster.results) :
          /\ raster.results[i].pdf_path # raster.results[j].pdf_path
          /\ raster.results[i].bytes = 2
          /\ raster.results[j].bytes = 2
          /\ raster.results[i].doc_dir = raster.results[j].doc_dir
          /\ Len(raster.results[j].pages) = 2

\* ------------------------------------------------------ flags and payload
\* the detections run_inference_on_pages returned, over all pages
AllDetections ==
    UNION {{labels.page_dets_raw[i][j] : j \in 1..Len(labels.page_dets_raw[i])}
              : i \in DOMAIN labels.page_dets_raw}

\* the entry of the payload's one key
PayloadEntry ==
    labels.row.labelsPosition[CHOOSE key \in DOMAIN labels.row.labelsPosition : TRUE]

PageKeys == {<<"page_", i>> : i \in 1..Len(labels.pages)}

\* the key matches /^[_A-Za-z][_0-9A-Za-z]*$/
IsGraphqlName(key) ==
    /\ key # <<>>
    /\ key[1] \in Letters \cup {"_"}
    /\ \A k \in 1..Len(key) : key[k] \in Letters \cup Digits \cup {"_"}

\* C13: for a document that reaches SUCCESSFUL each persisted flag is true
\* if and only if run_inference_on_pages returned a detection of its
\* category on some page; without pages or without detections the three
\* flags are false and the document is SUCCESSFUL all the same.
C13_FlagsFollowDetections ==
    labels.pc = "done" /\ labels.row.status = "SUCCESSFUL"
    => /\ labels.row.hasQR = (\E d \in AllDetections : d.category = "qr")
       /\ labels.row.hasSignature = (\E d \in AllDetections : d.category = "signature")
       /\ labels.row.hasStamp = (\E d \in AllDetections : d.category = "stamp")
       /\ \A d \in AllDetections : d.category \in Categories /\ d.confidence >= ConfThres
       /\ (\A i \in DOMAIN labels.models["qr"] : \A c \in Categories :
              \A j \in 1..Len(labels.models[c][i].boxes) :
                 LET box == labels.models[c][i].boxes[j] IN
                 box.conf >= ConfThres
                    => \E d \in AllDetections :
                          /\ d.category = c
                          /\ d.confidence = box.conf
                          /\ <<d.x, d.y, d.x + d.w, d.y + d.h>> = box.xyxy)

C13_Witness ==
    /\ labels.pc = "done"
    /\ labels.row.status = "SUCCESSFUL"
    /\ Len(labels.pages) = 2
    /\ labels.row.hasSignature
    /\ ~labels.row.hasQR
    /\ ~labels.row.hasStamp

C21_AnalysisRecordCreated ==
    \A k \in TaskIds :
        "analysis" \in tasks[k].progress
        => \E a \in 1..Len(analyses) :
              analyses[a].documentId = StrOf(tasks[k].document_id)

C28_FailurePathCleansUp ==
    \A k \in TaskIds :
        (TaskOver(k) /\ TaskDocument(k).status = "FAILED")
        => tasks[k].document_id \notin tempFiles

\* ------------------------------------------------------------------- C22
\* C22: the status of a DocumentAnalysis record changes only from
\* PROCESSING to COMPLETED or from PROCESSING to FAILED, whichever step of
\* analyze_document fails.
C22_StatusMonotonic ==
    [][\A a \in 1..Len(analyses) :
          analyses'[a].status # analyses[a].status
          => /\ analyses[a].status = "PROCESSING"
             /\ analyses'[a].status \in {"COMPLETED", "FAILED"}]_vars

\* a call wrote COMPLETED and then raised from the disconnect of the finally
\* clause
C22_Witness ==
    \E c \in CallIds :
        /\ calls[c].pc = "raised"
        /\ calls[c].analysis_id # 0
        /\ CallRow(c).status = "COMPLETED"

\* ------------------------------------------------------------------- C23
\* a call whose create was rejected because the key already had a record
Rejected(c) ==
    calls[c].failed = "create" /\ calls[c].cause = UniqueConstraintFailed

\* C23: no two DocumentAnalysis records have the same documentId; a call
\* whose create is rejected for an existing key raises to its caller, refers
\* to no record, and none of its steps changes any record.
C23_OneRecordPerDocument ==
    /\ [](\A a, b \in 1..Len(analyses) :
             a # b => analyses[a].documentId # analyses[b].documentId)
    /\ [](\A c \in CallIds :
             Rejected(c)
             => /\ calls[c].analysis_id = 0
                /\ CallOver(c) => calls[c].pc = "raised")
    /\ [][\A c \in CallIds :
             (Rejected(c)' /\ calls'[c] # calls[c]) => analyses' = analyses]_vars

\* a second call for a document whose record is COMPLETED was rejected
C23_Witness ==
    \E c \in CallIds :
        /\ Rejected(c)
        /\ CallOver(c)
        /\ \E a \in 1..Len(analyses) :
              /\ analyses[a].documentId = StrOf(DocInt(calls[c].document_id))
              /\ analyses[a].status = "COMPLETED"

\* ------------------------------------------------------------------- C24
\* C24: a call holds the results of analyze_document_text only when all
\* four requests answered, a call whose LLM step failed holds none, and
\* every result field of a DocumentAnalysis record is set exactly when the
\* record's status is COMPLETED.
C24_AllOrNothing ==
    /\ \A c \in CallIds :
          /\ calls[c].llm_results # <<>>
                => \A i \in 1..Len(SubQueries) : calls[c].llm_results[i] # "null"
          /\ calls[c].failed = "llm" => calls[c].llm_results = <<>>
    /\ \A a \in 1..Len(analyses) : \A f \in ResultFields :
          analyses[a].results[f] # "null" <=> analyses[a].status = "COMPLETED"

\* the summary request failed after the three before it had answered, and
\* the call is over
C24_Witness ==
    \E c \in CallIds :
        /\ CallOver(c)
        /\ calls[c].failed = "llm"
        /\ Contains(calls[c].cause, <<"Summary generation failed: ">>)
        /\ CallRow(c).results = NoResults
        /\ CallRow(c).status = "FAILED"

\* ------------------------------------------------------------------- C25
\* the detections a detector's result gives for one page: its boxes at or
\* above the threshold, in the result's order
KeptBoxes(boxes) == SelectSeq(boxes, LAMBDA box : box.conf >= ConfThres)

ExpectedGroup(category, boxes) ==
    [j \in 1..Len(KeptBoxes(boxes)) |->
        LET box == KeptBoxes(boxes)[j] IN
        Detection(category, box.xyxy[1], box.xyxy[2],
                  box.xyxy[3] - box.xyxy[1], box.xyxy[4] - box.xyxy[2],
                  (box.xyxy[3] - box.xyxy[1]) * (box.xyxy[4] - box.xyxy[2]),
                  box.conf)]


\* C25: the mapping run_inference_on_pages returns has exactly the page
\* indexes as its keys, and the list of the i-th page is the qr detections of
\* result i, then the signature detections of result i, then the stamp
\* detections of result i, each in the detector's order; for no pages the
\* mapping is empty and no detector is invoked.
C25_OneEntryPerPage ==
    (labels.pc \in {"find_unique", "persist"})
    => /\ DOMAIN labels.page_dets_raw
            = {labels.pages[k].index : k \in 1..Len(labels.pages)}
       /\ \A k \in 1..Len(labels.pages) :
             labels.page_dets_raw[labels.pages[k].index]
                = ExpectedGroup("qr", labels.models["qr"][k].boxes)
                    \o ExpectedGroup("signature", labels.models["signature"][k].boxes)
                    \o ExpectedGroup("stamp", labels.models["stamp"][k].boxes)
       /\ labels.pages = <<>>
             => labels.page_dets_raw = <<>> /\ labels.model_calls = <<>>
       /\ labels.pages # <<>> => labels.model_calls = <<"qr", "signature", "stamp">>

\* two pages with different results: the first has two qr detections, one
\* signature and one stamp detection, the second none
C25_Witness ==
    /\ labels.pc = "find_unique"
    /\ Len(labels.pages) = 2
    /\ Len(labels.page_dets_raw[1]) = 4
    /\ labels.page_dets_raw[1][1].category = "qr"
    /\ labels.page_dets_raw[1][2].category = "qr"
    /\ labels.page_dets_raw[1][3].category = "signature"
    /\ labels.page_dets_raw[1][4].category = "stamp"
    /\ labels.page_dets_raw[2] = <<>>

\* ------------------------------------------------------------------- C26
\* C26: of the boxes of a detector's result, exactly those whose confidence
\* is at least the threshold become detections, in the order of the result;
\* every detection of the persisted payload has a confidence of at least the
\* threshold.
C26_ThresholdExact ==
    /\ \A c \in Categories : \A i \in DOMAIN labels.models[c] :
          LET boxes == labels.models[c][i].boxes
              dets  == yolo_results_to_detections(<<labels.models[c][i]>>, c, ConfThres)
          IN /\ Len(dets) = Cardinality({j \in 1..Len(boxes) : boxes[j].conf >= ConfThres})
             /\ dets = ExpectedGroup(c, boxes)
             /\ \A j \in 1..Len(dets) : dets[j].confidence >= ConfThres
    /\ (labels.pc = "done" /\ labels.row.status = "SUCCESSFUL")
          => \A key \in PageKeys :
                \A j \in 1..Len(PayloadEntry[key].annotations) :
                   PayloadEntry[key].annotations[j].confidence >= ConfThres

\* a payload was persisted for a result with a box above the threshold, one
\* below it and one exactly at it, in this order
C26_Witness ==
    /\ labels.pc = "done"
    /\ labels.row.status = "SUCCESSFUL"
    /\ labels.models["qr"][1].boxes = <<BoxBeyondPage, BoxBelowThreshold, BoxAtThreshold>>
    /\ Len(PayloadEntry[<<"page_", 1>>].annotations) >= 2
    /\ PayloadEntry[<<"page_", 1>>].annotations[1].confidence = BoxBeyondPage.conf
    /\ PayloadEntry[<<"page_", 1>>].annotations[2].confidence = ConfThres

\* ------------------------------------------------------------------- C27
\* C27: for every file name the key _safe_graphql_key returns is non-empty,
\* starts with a letter or an underscore and consists of ASCII letters,
\* digits and underscores; a name of that form is returned unchanged; the
\* key of a non-empty name is the name with every other character replaced
\* by an underscore, after k_ when that does not start with a letter or an
\* underscore, and the empty name alone gets k_ and the random token.
C27_KeyIsGraphqlName ==
    safe_keys.pc = "returned"
    => LET name == safe_keys.name
           key  == safe_keys.key
           replaced == [k \in 1..Len(name) |->
                          IF name[k] \in Letters \cup Digits \cup {"_"}
                          THEN name[k] ELSE "_"]
       IN /\ IsGraphqlName(key)
          /\ IsGraphqlName(name) => key = name
          /\ name # <<>> => key \in {replaced, <<"k", "_">> \o replaced}
          /\ key = <<"k", "_">> \o UuidHex <=> name = <<>>

\* a digit-leading name with a character outside ASCII and a dot
C27_Witness ==
    /\ safe_keys.pc = "returned"
    /\ safe_keys.name = <<"7", "U+00E9", ".">>
    /\ safe_keys.key = <<"k", "_", "7", "_", "_">>

\* ------------------------------------------------------------------- C29
\* C29: a task that has rasterized its PDF and has yet to run detection
\* finds its page images in work_root/<hash>, whatever the other tasks have
\* done; no task fails on a missing file, and a task that met no failure of
\* its own ends with its document SUCCESSFUL.
C29_NoInterference ==
    \A k \in WorkTaskIds :
        LET t == work.tasks[k] IN
        /\ ~t.missing
        /\ t.pc = "inference" => PageFiles(t.pages) \subseteq work.dirs[t.doc_hash]
        /\ (t.pc \in {"done", "raised"} /\ t.e = "none") => t.status = "SUCCESSFUL"

\* two tasks on PDFs with the same bytes: the first has finished and removed
\* the directory they share, the second has run detection and is about to
\* persist its payload
C29_Witness ==
    /\ work.tasks[1].bytes = work.tasks[2].bytes
    /\ work.tasks[1].doc_hash = work.tasks[2].doc_hash
    /\ work.tasks[1].pc = "done"
    /\ work.tasks[1].status = "SUCCESSFUL"
    /\ work.dirs[work.tasks[1].doc_hash] = {}
    /\ work.tasks[2].pc = "persist"

====
